---- MODULE Spec2Model ----
(***************************************************************************)
(* Orki Gateway (Solana / Anchor program): global configuration, merchant  *)
(* registry and the payment-settlement instruction, as a state machine.    *)
(*                                                                         *)
(* Every instruction is one atomic transaction.  A transaction first runs  *)
(* the account validation that the #[derive(Accounts)] struct declares     *)
(* (including the creation of `init` accounts, funded by their `payer`),   *)
(* then the handler body.  Any error aborts the whole transaction: nothing *)
(* of it is committed.                                                     *)
(*                                                                         *)
(* Scaling: lamport and token quantities are small naturals; the integer   *)
(* widths of the fee arithmetic are scaled down (see AmountBits) with      *)
(* their relation kept: the wide type holds every product amount*fee_bps.  *)
(* Clock timestamps are not modelled.                                      *)
(***************************************************************************)
EXTENDS Integers, Sequences, FiniteSets, TLC

VARIABLES
    gs,         \* the GlobalState account (PDA "global_state")
    merchants,  \* Merchant accounts, by PDA address <<owner, seed name>>
    payments,   \* the set of Payment accounts (each carries its PDA address)
    lamports,   \* native balance of every wallet
    tokens,     \* amount held by every token account
    log,        \* payment-processed notifications observed so far
    txCount,    \* number of committed transactions
    last,       \* outcome of the last transaction (error, transfers, events)
    pre,        \* the accounts and the log as the last transaction found them
    calc        \* fee-calculator harness: inputs and result

vars == <<gs, merchants, payments, lamports, tokens, log, txCount, last, pre, calc>>

---------------------------------------------------------------------------
(* Identities and accounts                                                 *)

Default == "default"            \* Pubkey::default()
None == "none"                  \* Option::None
Users == {"u1", "u2"}           \* identities that sign transactions
Wallets == {"u1", "u2", "w"}    \* system accounts holding lamports
Mints == {"M1", "M2"}

Shop == <<"s", "h", "o", "p">>
Cafe == <<"c", "a", "f", "e">>
MaxNameLen == 32
LongName == [i \in 1..(MaxNameLen + 1) |-> "x"]
SeedNames == {Shop, Cafe}
MerchantAddrs == {"u2"} \X SeedNames

\* Token accounts that exist on chain: mint, owner and frozen flag are fixed.
TokenAccounts == {"p1", "m2", "w1", "x1", "z"}
TAMint(t) == IF t = "x1" THEN "M2" ELSE "M1"
TAOwner(t) == CASE t = "p1" -> "u1"
                [] t = "m2" -> "u2"
                [] t = "w1" -> "w"
                [] t = "x1" -> "u1"
                [] OTHER    -> "u2"
TAFrozen(t) == t = "z"

---------------------------------------------------------------------------
(* Bounds of the exploration and numeric constants                         *)

Funds == 4          \* initial lamports of each user
TokenFunds == 2     \* initial amount of every token account
MaxAmount == 2      \* largest gross amount requested in the full system
MaxPaymentId == 2   \* payment identifiers 1..MaxPaymentId
MaxTx == 5          \* committed transactions explored
Rent == 1           \* rent-exempt deposit of a program account (scaled)

BpsDenominator == 10000
MaxFeeBps == 10000
AmountBits == 6                 \* width of the scaled u64
U64Max == 2 ^ AmountBits - 1
U128Max == 2 ^ (AmountBits + 16) - 1    \* the wide type holds u64 * u16


Ok == "Ok"
NoAddr == <<Default, <<>>>>

\* Inputs of the instructions, drawn from small sets.
InitFeeInputs == {5000, 10001}
SetFeeInputs == {10000, 10001}
InitFeeWalletInputs == {"w"}
SetFeeWalletInputs == {"u1"}
AdminInputs == {"u2"}
MerchantOwners == {"u2"}
RegisterWalletInputs == {"u2"}
UpdateWalletInputs == {"w"}
RegisterTokenInputs == {Default, "M1"}
UpdateTokenInputs == {"M1"}
RegisterNames == {Shop, Cafe, LongName}
\* Option<T> arguments whose T is not an address: <<>> is None, <<v>> is Some(v).
Some(v) == <<v>>
Nothing == <<>>
NewNameInputs == {Some(Cafe), Some(LongName)}
SwapInputs == {Some(TRUE), Some(FALSE)}
PaymentIds == 1..MaxPaymentId
Amounts == 0..MaxAmount

---------------------------------------------------------------------------
(* Account records                                                         *)

\* state/global_state.rs; an account that was never created reads as absent.
NoGlobalState ==
    [initialized |-> FALSE, admin |-> Default, fee_bps |-> 0,
     fee_wallet |-> Default, paused |-> FALSE]

\* state/merchant.rs
NoMerchant ==
    [initialized |-> FALSE, owner |-> Default, settlement_wallet |-> Default,
     settlement_token |-> Default, swap_enabled |-> FALSE, name |-> <<>>]

\* state/payment.rs, with the account's address (its PDA seeds) and lamports.
\* Variant: the payer is left out of the payment_history seeds.
PaymentAddrByIdOnly(payer, payment_id) == <<Default, payment_id>>

PaymentAddr(payer, payment_id) == <<payer, payment_id>>
PaymentAddrs == {p.addr : p \in payments}

\* What a transaction leaves for its observers: who called what with which
\* arguments, the error it returned, the transfers it made and the events it
\* emitted.  `path` tells which asset branch of process_payment ran.
NoOutcome ==
    [op |-> "none", caller |-> Default, err |-> Ok, pid |-> 0,
     merchant |-> NoAddr, args |-> <<>>, path |-> None, legs |-> <<>>,
     emitted |-> <<>>]

\* The observable state a transaction starts from.
Snapshot ==
    [gs |-> gs, merchants |-> merchants, payments |-> payments,
     lamports |-> lamports, tokens |-> tokens, log |-> log]

NoCalc == [amount |-> 0, fee_bps |-> 0, err |-> None, fee |-> 0, merchant_amount |-> 0]

---------------------------------------------------------------------------
(* Host and library calls the program makes                                *)

\* anchor_lang::system_program::transfer: fails when the source cannot cover
\* the amount; a transfer to oneself leaves the balance as it was.
SystemTransfer(l, from, to, amt) ==
    IF l[from] < amt
    THEN [err |-> "InsufficientLamports", lamports |-> l]
    ELSE [err |-> Ok,
          lamports |-> [a \in DOMAIN l |->
              l[a] - (IF a = from THEN amt ELSE 0) + (IF a = to THEN amt ELSE 0)]]

\* anchor_spl::token::transfer (SPL Token Transfer): the token program itself
\* refuses frozen accounts, an uncovered amount, differing mints and an
\* authority that does not own the source; a self-transfer moves nothing.
TokenTransfer(tok, from, to, authority, amt) ==
    IF TAFrozen(from) \/ TAFrozen(to)
    THEN [err |-> "AccountFrozen", tokens |-> tok]
    ELSE IF tok[from] < amt
    THEN [err |-> "InsufficientFunds", tokens |-> tok]
    ELSE IF TAMint(from) # TAMint(to)
    THEN [err |-> "MintMismatch", tokens |-> tok]
    ELSE IF TAOwner(from) # authority
    THEN [err |-> "OwnerMismatch", tokens |-> tok]
    ELSE [err |-> Ok,
          tokens |-> [a \in DOMAIN tok |->
              tok[a] - (IF a = from THEN amt ELSE 0) + (IF a = to THEN amt ELSE 0)]]

\* Variant: an address already in use is allocated again.
InitAccountNoCollision(l, funder, inUse) ==
    IF l[funder] < Rent
    THEN [err |-> "InsufficientLamports", lamports |-> l]
    ELSE [err |-> Ok, lamports |-> [l EXCEPT ![funder] = @ - Rent]]

\* #[account(init, payer = funder, ...)]: the account is created by the system
\* program, which refuses an address already in use, and the funder deposits
\* the rent-exempt minimum.
InitAccount(l, funder, inUse) ==
    IF inUse
    THEN [err |-> "AccountAlreadyInUse", lamports |-> l]
    ELSE IF l[funder] < Rent
    THEN [err |-> "InsufficientLamports", lamports |-> l]
    ELSE [err |-> Ok, lamports |-> [l EXCEPT ![funder] = @ - Rent]]

---------------------------------------------------------------------------
(* process_payment: instructions/process_payment.rs                        *)

\* Accounts the caller passes besides payer, merchant and payment_history.
NativeAccounts ==
    [merchant_wallet : {"u2", "w"}, fee_wallet : {"w", "u1"},
     token_program : {FALSE}, mint : {None, "M1"},
     payer_ta : {None}, merchant_ta : {None}, fee_ta : {None}]

SplAccountsOf(mints, payer_tas, merchant_tas, fee_tas) ==
    [merchant_wallet : {"w"}, fee_wallet : {"w"},
     token_program : {TRUE}, mint : mints,
     payer_ta : payer_tas, merchant_ta : merchant_tas, fee_ta : fee_tas]

\* <<p1, m2, w1>> are the payer's, the merchant's and the fee collector's
\* accounts of mint M1 when u1 pays; the others deviate from them in one
\* account, or send both legs back to the payer.
SplAccounts ==
    SplAccountsOf({"M1"}, {"p1", "m2"}, {"m2"}, {"w1"})
    \cup SplAccountsOf({"M1"}, {"p1"}, {"p1", "z", "x1"}, {"w1"})
    \cup SplAccountsOf({"M1"}, {"p1"}, {"m2"}, {"p1", "x1"})
    \cup SplAccountsOf({"M1"}, {"p1"}, {"p1"}, {"p1"})
    \cup SplAccountsOf({None, "M2"}, {"p1"}, {"m2"}, {"w1"})
    \cup SplAccountsOf({"M1"}, {None}, {"m2"}, {"w1"})
    \cup SplAccountsOf({"M1"}, {"p1"}, {None}, {"w1"})
    \cup SplAccountsOf({"M1"}, {"p1"}, {"m2"}, {None})

PaymentNameInputs == {Shop, Cafe}

\* Variant: the product is narrowed to the amount's width before the
\* division instead of after it.
CalcFeeNarrowedFirst(amount, fee_bps) ==
    LET product == (amount * fee_bps) % (U64Max + 1)
        fee == product \div BpsDenominator
    IN IF fee > amount
       THEN [err |-> "CalculationError", fee |-> fee, merchant_amount |-> 0]
       ELSE [err |-> Ok, fee |-> fee, merchant_amount |-> amount - fee]

\* Variant: the product is formed in the amount's own width.
CalcFeeNarrow(amount, fee_bps) ==
    LET product == amount * fee_bps IN
    IF product > U64Max
    THEN [err |-> "CalculationError", fee |-> 0, merchant_amount |-> 0]
    ELSE LET fee == product \div BpsDenominator IN
         [err |-> Ok, fee |-> fee, merchant_amount |-> amount - fee]

\* lines 74-83: the fee in a widened intermediate, narrowed with `as u64`,
\* and the checked subtraction.
CalcFee(amount, fee_bps) ==
    LET product == amount * fee_bps IN
    IF product > U128Max
    THEN [err |-> "CalculationError", fee |-> 0, merchant_amount |-> 0]
    ELSE LET fee == (product \div BpsDenominator) % (U64Max + 1) IN
         IF fee > amount
         THEN [err |-> "CalculationError", fee |-> fee, merchant_amount |-> 0]
         ELSE [err |-> Ok, fee |-> fee, merchant_amount |-> amount - fee]

Leg(asset, from, to, amt) ==
    [asset |-> asset, from |-> from, to |-> to, amount |-> amt]

\* Variant: the pause flag is not consulted.
PauseGateOff(state) == FALSE

\* line 70
PauseGate(state) == state.paused

\* Variant: a swap-tolerant merchant is exempted, as in the native branch.
SplTokenMismatchUnlessSwap(m, mint) ==
    m.settlement_token # Default /\ mint # m.settlement_token /\ ~m.swap_enabled

\* lines 96-102
SplTokenMismatch(m, mint) ==
    m.settlement_token # Default /\ mint # m.settlement_token

\* lines 104-108
SplAccountsValid(payer, acc) ==
    /\ TAMint(acc.payer_ta) = acc.mint
    /\ TAMint(acc.merchant_ta) = acc.mint
    /\ TAMint(acc.fee_ta) = acc.mint
    /\ TAOwner(acc.payer_ta) = payer

\* Variant: the result of the merchant transfer is dropped instead of
\* propagated.
SplPathUnchecked(m, payer, amount, fee, merchant_amount, acc, tok) ==
    LET fail(e) == [err |-> e, tokens |-> tok, legs |-> <<>>] IN
    IF acc.mint = None THEN fail("MissingMint")
    ELSE IF acc.payer_ta = None THEN fail("MissingAccount")
    ELSE IF acc.merchant_ta = None THEN fail("MissingAccount")
    ELSE IF acc.fee_ta = None THEN fail("MissingAccount")
    ELSE IF SplTokenMismatch(m, acc.mint) THEN fail("InvalidToken")
    ELSE IF ~SplAccountsValid(payer, acc) THEN fail("InvalidTokenAccount")
    ELSE IF tok[acc.payer_ta] < amount THEN fail("InsufficientBalance")
    ELSE LET t1 == TokenTransfer(tok, acc.payer_ta, acc.fee_ta, payer, fee) IN
         IF t1.err # Ok THEN fail(t1.err)
         ELSE LET t2 == TokenTransfer(t1.tokens, acc.payer_ta, acc.merchant_ta,
                                      payer, merchant_amount) IN
              [err |-> Ok, tokens |-> t2.tokens,
               legs |-> <<Leg(acc.mint, acc.payer_ta, acc.fee_ta, fee),
                          Leg(acc.mint, acc.payer_ta, acc.merchant_ta,
                              merchant_amount)>>]

\* lines 86-138: the SPL token branch.
SplPath(m, payer, amount, fee, merchant_amount, acc, tok) ==
    LET fail(e) == [err |-> e, tokens |-> tok, legs |-> <<>>] IN
    IF acc.mint = None THEN fail("MissingMint")
    ELSE IF acc.payer_ta = None THEN fail("MissingAccount")
    ELSE IF acc.merchant_ta = None THEN fail("MissingAccount")
    ELSE IF acc.fee_ta = None THEN fail("MissingAccount")
    ELSE IF SplTokenMismatch(m, acc.mint) THEN fail("InvalidToken")
    ELSE IF ~SplAccountsValid(payer, acc) THEN fail("InvalidTokenAccount")
    ELSE IF tok[acc.payer_ta] < amount THEN fail("InsufficientBalance")
    ELSE LET t1 == TokenTransfer(tok, acc.payer_ta, acc.fee_ta, payer, fee) IN
         IF t1.err # Ok THEN fail(t1.err)
         ELSE LET t2 == TokenTransfer(t1.tokens, acc.payer_ta, acc.merchant_ta,
                                      payer, merchant_amount) IN
              IF t2.err # Ok THEN fail(t2.err)
              ELSE [err |-> Ok, tokens |-> t2.tokens,
                    legs |-> <<Leg(acc.mint, acc.payer_ta, acc.fee_ta, fee),
                               Leg(acc.mint, acc.payer_ta, acc.merchant_ta,
                                   merchant_amount)>>]

\* Variant: the swap flag is not consulted.
NativeTokenMismatchStrict(m) == m.settlement_token # Default

\* lines 142-145
NativeTokenMismatch(m) ==
    m.settlement_token # Default /\ ~m.swap_enabled

\* Variant: the supplied fee wallet is not compared with the configured one.
NativePathAnyFeeWallet(state, m, payer, amount, fee, merchant_amount, acc, l) ==
    LET fail(e) == [err |-> e, lamports |-> l, legs |-> <<>>] IN
    IF NativeTokenMismatch(m) THEN fail("InvalidToken")
    ELSE IF acc.merchant_wallet # m.settlement_wallet
    THEN fail("InvalidMerchantWallet")
    ELSE IF l[payer] < amount THEN fail("InsufficientBalance")
    ELSE LET t1 == SystemTransfer(l, payer, acc.fee_wallet, fee) IN
         IF t1.err # Ok THEN fail(t1.err)
         ELSE LET t2 == SystemTransfer(t1.lamports, payer, acc.merchant_wallet,
                                       merchant_amount) IN
              IF t2.err # Ok THEN fail(t2.err)
              ELSE [err |-> Ok, lamports |-> t2.lamports,
                    legs |-> <<Leg(Default, payer, acc.fee_wallet, fee),
                               Leg(Default, payer, acc.merchant_wallet,
                                   merchant_amount)>>]

\* Variant: the fee wallet is validated before the merchant wallet.
NativePathFeeFirst(state, m, payer, amount, fee, merchant_amount, acc, l) ==
    LET fail(e) == [err |-> e, lamports |-> l, legs |-> <<>>] IN
    IF NativeTokenMismatch(m) THEN fail("InvalidToken")
    ELSE IF acc.fee_wallet # state.fee_wallet THEN fail("InvalidFeeWallet")
    ELSE IF acc.merchant_wallet # m.settlement_wallet
    THEN fail("InvalidMerchantWallet")
    ELSE IF l[payer] < amount THEN fail("InsufficientBalance")
    ELSE LET t1 == SystemTransfer(l, payer, acc.fee_wallet, fee) IN
         IF t1.err # Ok THEN fail(t1.err)
         ELSE LET t2 == SystemTransfer(t1.lamports, payer, acc.merchant_wallet,
                                       merchant_amount) IN
              IF t2.err # Ok THEN fail(t2.err)
              ELSE [err |-> Ok, lamports |-> t2.lamports,
                    legs |-> <<Leg(Default, payer, acc.fee_wallet, fee),
                               Leg(Default, payer, acc.merchant_wallet,
                                   merchant_amount)>>]

\* lines 139-185: the native SOL branch.
NativePath(state, m, payer, amount, fee, merchant_amount, acc, l) ==
    LET fail(e) == [err |-> e, lamports |-> l, legs |-> <<>>] IN
    IF NativeTokenMismatch(m) THEN fail("InvalidToken")
    ELSE IF acc.merchant_wallet # m.settlement_wallet
    THEN fail("InvalidMerchantWallet")
    ELSE IF acc.fee_wallet # state.fee_wallet THEN fail("InvalidFeeWallet")
    ELSE IF l[payer] < amount THEN fail("InsufficientBalance")
    ELSE LET t1 == SystemTransfer(l, payer, acc.fee_wallet, fee) IN
         IF t1.err # Ok THEN fail(t1.err)
         ELSE LET t2 == SystemTransfer(t1.lamports, payer, acc.merchant_wallet,
                                       merchant_amount) IN
              IF t2.err # Ok THEN fail(t2.err)
              ELSE [err |-> Ok, lamports |-> t2.lamports,
                    legs |-> <<Leg(Default, payer, acc.fee_wallet, fee),
                               Leg(Default, payer, acc.merchant_wallet,
                                   merchant_amount)>>]

\* line 201
EventToken(acc) == IF acc.mint # None THEN acc.mint ELSE Default

\* Variant: the record is created but its merchant reference is never set.
PaymentRecordNoMerchant(payer, maddr, amount, payment_id) ==
    [addr |-> PaymentAddr(payer, payment_id), lamports |-> Rent,
     payer |-> payer, merchant |-> NoAddr, amount |-> amount,
     payment_id |-> payment_id]

\* lines 187-194
PaymentRecord(payer, maddr, amount, payment_id) ==
    [addr |-> PaymentAddr(payer, payment_id), lamports |-> Rent,
     payer |-> payer, merchant |-> maddr, amount |-> amount,
     payment_id |-> payment_id]

\* Variant: the notification reports the net amount instead of the gross.
PaymentProcessedNet(payer, maddr, amount, fee, token, payment_id) ==
    [kind |-> "PaymentProcessed", payer |-> payer, merchant |-> maddr,
     amount |-> amount - fee, fee |-> fee, token |-> token,
     payment_id |-> payment_id]

\* lines 196-204
PaymentProcessed(payer, maddr, amount, fee, token, payment_id) ==
    [kind |-> "PaymentProcessed", payer |-> payer, merchant |-> maddr,
     amount |-> amount, fee |-> fee, token |-> token, payment_id |-> payment_id]

\* lines 61-207: the handler body, run on the balances left by account
\* validation.  The result is what the transaction would commit.
ProcessPaymentHandler(state, m, maddr, payer, payment_id, amount, acc, l, tok) ==
    LET fail(e) == [err |-> e, lamports |-> l, tokens |-> tok, legs |-> <<>>,
                    record |-> {}, emitted |-> <<>>]
        c == CalcFee(amount, state.fee_bps)
    IN
    IF PauseGate(state) THEN fail("Paused")
    ELSE IF ~(amount > 0) THEN fail("InvalidAmount")
    ELSE IF c.err # Ok THEN fail(c.err)
    ELSE LET spl == SplPath(m, payer, amount, c.fee, c.merchant_amount, acc, tok)
             nat == NativePath(state, m, payer, amount, c.fee, c.merchant_amount,
                               acc, l)
             perr == IF acc.token_program THEN spl.err ELSE nat.err
         IN
         IF perr # Ok THEN fail(perr)
         ELSE [err |-> Ok,
               lamports |-> IF acc.token_program THEN l ELSE nat.lamports,
               tokens |-> IF acc.token_program THEN spl.tokens ELSE tok,
               legs |-> IF acc.token_program THEN spl.legs ELSE nat.legs,
               record |-> {PaymentRecord(payer, maddr, amount, payment_id)},
               emitted |-> <<PaymentProcessed(payer, maddr, amount, c.fee,
                                              EventToken(acc), payment_id)>>]

\* Variant: payment_history declared init_if_needed, an existing record is
\* accepted.
PaymentAccountsOnReuse(s, payer, payment_id, maddr, name) ==
    LET fail(e) == [err |-> e, lamports |-> s.lamports]
        m == s.merchants[maddr]
        created == IF PaymentAddr(payer, payment_id)
                          \in {p.addr : p \in s.payments}
                   THEN [err |-> Ok, lamports |-> s.lamports]
                   ELSE InitAccount(s.lamports, payer, FALSE)
    IN
    IF ~s.gs.initialized THEN fail("AccountNotInitialized")
    ELSE IF ~m.initialized THEN fail("AccountNotInitialized")
    ELSE IF created.err # Ok THEN fail(created.err)
    ELSE IF maddr # <<m.owner, name>> THEN fail("ConstraintSeeds")
    ELSE created

\* lines 7-59: account validation in field order, on the accounts as they
\* are in s.  The `init` of payment_history runs while the accounts are
\* loaded, funded by the payer; the seeds constraint of the merchant is
\* checked after all accounts are loaded.
PaymentAccountsOn(s, payer, payment_id, maddr, name) ==
    LET fail(e) == [err |-> e, lamports |-> s.lamports]
        m == s.merchants[maddr]
        created == InitAccount(s.lamports, payer,
                       PaymentAddr(payer, payment_id)
                           \in {p.addr : p \in s.payments})
    IN
    IF ~s.gs.initialized THEN fail("AccountNotInitialized")
    ELSE IF ~m.initialized THEN fail("AccountNotInitialized")
    ELSE IF created.err # Ok THEN fail(created.err)
    ELSE IF maddr # <<m.owner, name>> THEN fail("ConstraintSeeds")
    ELSE created

PaymentAccounts(payer, payment_id, maddr, name) ==
    PaymentAccountsOn(Snapshot, payer, payment_id, maddr, name)

\* The whole transaction run on the accounts as they are in s: account
\* validation, then the handler.  An error at any point commits nothing.
ProcessPaymentOn(s, payer, payment_id, maddr, name, amount, acc) ==
    LET abort(e) == [err |-> e, lamports |-> s.lamports, tokens |-> s.tokens,
                     payments |-> s.payments, legs |-> <<>>, emitted |-> <<>>]
        v == PaymentAccountsOn(s, payer, payment_id, maddr, name)
    IN
    IF v.err # Ok THEN abort(v.err)
    ELSE LET h == ProcessPaymentHandler(s.gs, s.merchants[maddr], maddr, payer,
                                        payment_id, amount, acc, v.lamports,
                                        s.tokens) IN
         IF h.err # Ok THEN abort(h.err)
         ELSE [err |-> Ok, lamports |-> h.lamports, tokens |-> h.tokens,
               payments |-> s.payments \cup h.record, legs |-> h.legs,
               emitted |-> h.emitted]

ProcessPaymentTx(payer, payment_id, maddr, name, amount, acc) ==
    ProcessPaymentOn(Snapshot, payer, payment_id, maddr, name, amount, acc)

---------------------------------------------------------------------------
(* process_payment as defined inline in lib.rs (lines 118-261, accounts at  *)
(* lines 306-360): payment_history is a raw account of 8 + 1 bytes whose    *)
(* first byte the handler sets.                                             *)

\* The rent-exempt minimum grows with the size of the account: the 9-byte
\* marker account costs less than the account of a full Payment Record.  In
\* the unit of the model, where the latter costs Rent, it costs one less.
MarkerRent == Rent - 1

\* lib.rs lines 336-345: #[account(init, payer = payer, space = 8 + 1, ...)].
LibInitAccount(l, funder, inUse) ==
    IF inUse
    THEN [err |-> "AccountAlreadyInUse", lamports |-> l]
    ELSE IF l[funder] < MarkerRent
    THEN [err |-> "InsufficientLamports", lamports |-> l]
    ELSE [err |-> Ok, lamports |-> [l EXCEPT ![funder] = @ - MarkerRent]]

\* lib.rs lines 306-360: account validation in field order.
LibPaymentAccountsOn(s, payer, payment_id, maddr, name) ==
    LET fail(e) == [err |-> e, lamports |-> s.lamports]
        m == s.merchants[maddr]
        created == LibInitAccount(s.lamports, payer,
                       <<payer, payment_id>> \in {p.addr : p \in s.payments})
    IN
    IF ~s.gs.initialized THEN fail("AccountNotInitialized")
    ELSE IF ~m.initialized THEN fail("AccountNotInitialized")
    ELSE IF created.err # Ok THEN fail(created.err)
    ELSE IF maddr # <<m.owner, name>> THEN fail("ConstraintSeeds")
    ELSE created

\* lib.rs lines 132-140
LibCalcFee(amount, fee_bps) ==
    LET product == amount * fee_bps IN
    IF product > U128Max
    THEN [err |-> "CalculationError", fee |-> 0, merchant_amount |-> 0]
    ELSE LET fee == (product \div 10000) % (U64Max + 1) IN
         IF fee > amount
         THEN [err |-> "CalculationError", fee |-> fee, merchant_amount |-> 0]
         ELSE [err |-> Ok, fee |-> fee, merchant_amount |-> amount - fee]

\* lib.rs lines 143-195: the SPL token branch.
LibSplPath(m, payer, amount, fee, merchant_amount, acc, tok) ==
    LET fail(e) == [err |-> e, tokens |-> tok, legs |-> <<>>] IN
    IF acc.mint = None THEN fail("MissingMint")
    ELSE IF acc.payer_ta = None THEN fail("MissingAccount")
    ELSE IF acc.merchant_ta = None THEN fail("MissingAccount")
    ELSE IF acc.fee_ta = None THEN fail("MissingAccount")
    ELSE IF m.settlement_token # Default /\ acc.mint # m.settlement_token
    THEN fail("InvalidToken")
    ELSE IF TAMint(acc.payer_ta) # acc.mint THEN fail("InvalidTokenAccount")
    ELSE IF TAMint(acc.merchant_ta) # acc.mint THEN fail("InvalidTokenAccount")
    ELSE IF TAMint(acc.fee_ta) # acc.mint THEN fail("InvalidTokenAccount")
    ELSE IF TAOwner(acc.payer_ta) # payer THEN fail("InvalidTokenAccount")
    ELSE IF ~(tok[acc.payer_ta] >= amount) THEN fail("InsufficientBalance")
    ELSE LET t1 == TokenTransfer(tok, acc.payer_ta, acc.fee_ta, payer, fee) IN
         IF t1.err # Ok THEN fail(t1.err)
         ELSE LET t2 == TokenTransfer(t1.tokens, acc.payer_ta, acc.merchant_ta,
                                      payer, merchant_amount) IN
              IF t2.err # Ok THEN fail(t2.err)
              ELSE [err |-> Ok, tokens |-> t2.tokens,
                    legs |-> <<Leg(acc.mint, acc.payer_ta, acc.fee_ta, fee),
                               Leg(acc.mint, acc.payer_ta, acc.merchant_ta,
                                   merchant_amount)>>]

\* lib.rs lines 196-242: the native SOL branch.
LibNativePath(state, m, payer, amount, fee, merchant_amount, acc, l) ==
    LET fail(e) == [err |-> e, lamports |-> l, legs |-> <<>>] IN
    IF m.settlement_token # Default /\ ~m.swap_enabled
    THEN fail("InvalidToken")
    ELSE IF ~(acc.merchant_wallet = m.settlement_wallet)
    THEN fail("InvalidMerchantWallet")
    ELSE IF ~(acc.fee_wallet = state.fee_wallet) THEN fail("InvalidFeeWallet")
    ELSE IF ~(l[payer] >= amount) THEN fail("InsufficientBalance")
    ELSE LET t1 == SystemTransfer(l, payer, acc.fee_wallet, fee) IN
         IF t1.err # Ok THEN fail(t1.err)
         ELSE LET t2 == SystemTransfer(t1.lamports, payer, acc.merchant_wallet,
                                       merchant_amount) IN
              IF t2.err # Ok THEN fail(t2.err)
              ELSE [err |-> Ok, lamports |-> t2.lamports,
                    legs |-> <<Leg(Default, payer, acc.fee_wallet, fee),
                               Leg(Default, payer, acc.merchant_wallet,
                                   merchant_amount)>>]

\* Variant: the marker account is seeded by the payment identifier alone.
LibMarkerByIdOnly(payer, payment_id) ==
    [addr |-> <<Default, payment_id>>, lamports |-> MarkerRent, status |-> 1]

\* lib.rs lines 336-345 and 244-248: the account at the payment seeds, its
\* first byte set to 1.
LibMarker(payer, payment_id) ==
    [addr |-> <<payer, payment_id>>, lamports |-> MarkerRent, status |-> 1]

\* lib.rs lines 250-258
LibPaymentProcessed(payer, maddr, amount, fee, acc, payment_id) ==
    [kind |-> "PaymentProcessed", payer |-> payer, merchant |-> maddr,
     amount |-> amount, fee |-> fee,
     token |-> IF acc.mint # None THEN acc.mint ELSE Default,
     payment_id |-> payment_id]

\* lib.rs lines 118-261: the whole transaction on the accounts as they are
\* in s.
LibProcessPaymentOn(s, payer, payment_id, maddr, name, amount, acc) ==
    LET abort(e) == [err |-> e, lamports |-> s.lamports, tokens |-> s.tokens,
                     payments |-> s.payments, legs |-> <<>>, emitted |-> <<>>]
        v == LibPaymentAccountsOn(s, payer, payment_id, maddr, name)
        m == s.merchants[maddr]
        c == LibCalcFee(amount, s.gs.fee_bps)
        done(l, tok, legs) ==
            [err |-> Ok, lamports |-> l, tokens |-> tok,
             payments |-> s.payments \cup {LibMarker(payer, payment_id)},
             legs |-> legs,
             emitted |-> <<LibPaymentProcessed(payer, maddr, amount, c.fee,
                                               acc, payment_id)>>]
    IN
    IF v.err # Ok THEN abort(v.err)
    ELSE IF s.gs.paused THEN abort("Paused")
    ELSE IF ~(amount > 0) THEN abort("InvalidAmount")
    ELSE IF c.err # Ok THEN abort(c.err)
    ELSE IF acc.token_program
    THEN LET p == LibSplPath(m, payer, amount, c.fee, c.merchant_amount, acc,
                             s.tokens) IN
         IF p.err # Ok THEN abort(p.err)
         ELSE done(v.lamports, p.tokens, p.legs)
    ELSE LET p == LibNativePath(s.gs, m, payer, amount, c.fee,
                                c.merchant_amount, acc, v.lamports) IN
         IF p.err # Ok THEN abort(p.err)
         ELSE done(p.lamports, s.tokens, p.legs)

\* Exploration: transactions are explored while fewer than MaxTx have
\* committed, and a failed transaction ends its behaviour: it changes nothing
\* but `last` and `pre`, so what can follow it is what follows the state
\* before it.
Explore == txCount < MaxTx /\ last.err = Ok
Committed(err) == txCount + (IF err = Ok THEN 1 ELSE 0)

\* The handler returns before it reads `amount` when account validation fails
\* or the program is paused, and before it reads the asset accounts when the
\* amount or the fee calculation is rejected: an input that is never read is
\* not enumerated.
ReadsAmount(payer, payment_id, maddr, name) ==
    /\ PaymentAccounts(payer, payment_id, maddr, name).err = Ok
    /\ ~PauseGate(gs)

ReadsAssetAccounts(amount) ==
    amount > 0 /\ CalcFee(amount, gs.fee_bps).err = Ok

UnreadAccounts ==
    [merchant_wallet |-> Default, fee_wallet |-> Default, token_program |-> FALSE,
     mint |-> None, payer_ta |-> None, merchant_ta |-> None, fee_ta |-> None]

PaymentStep(payer, payment_id, maddr, name, amount, acc, path, o) ==
    /\ lamports' = o.lamports
    /\ tokens' = o.tokens
    /\ payments' = o.payments
    /\ log' = log \o o.emitted
    /\ txCount' = Committed(o.err)
    /\ pre' = Snapshot
    /\ last' = [op |-> "process_payment", caller |-> payer, err |-> o.err,
                pid |-> payment_id, merchant |-> maddr,
                args |-> [name |-> name, amount |-> amount, acc |-> acc],
                path |-> path, legs |-> o.legs, emitted |-> o.emitted]
    /\ UNCHANGED <<gs, merchants, calc>>

PaymentPath(acc) == IF acc.token_program THEN "spl" ELSE "native"

ProcessPayment ==
    /\ Explore
    /\ \E payer \in Users, payment_id \in PaymentIds, maddr \in MerchantAddrs,
          name \in PaymentNameInputs :
        IF ~ReadsAmount(payer, payment_id, maddr, name)
        THEN PaymentStep(payer, payment_id, maddr, name, 0, UnreadAccounts, None,
                 ProcessPaymentTx(payer, payment_id, maddr, name, 0,
                                  UnreadAccounts))
        ELSE \E amount \in Amounts :
            IF ~ReadsAssetAccounts(amount)
            THEN PaymentStep(payer, payment_id, maddr, name, amount,
                     UnreadAccounts, None,
                     ProcessPaymentTx(payer, payment_id, maddr, name, amount,
                                      UnreadAccounts))
            ELSE \E acc \in NativeAccounts \cup SplAccounts :
                PaymentStep(payer, payment_id, maddr, name, amount, acc,
                    PaymentPath(acc),
                    ProcessPaymentTx(payer, payment_id, maddr, name, amount, acc))

---------------------------------------------------------------------------
(* initialize: instructions/initialize.rs                                  *)

Outcome(op, caller, err, maddr, args, emitted) ==
    [op |-> op, caller |-> caller, err |-> err, pid |-> 0, merchant |-> maddr,
     args |-> args, path |-> None, legs |-> <<>>, emitted |-> emitted]

\* Variant: global_state declared init_if_needed, an existing account is
\* accepted and written again.
InitializeTxReinit(caller, fee_bps, fee_wallet) ==
    LET abort(e) == [err |-> e, gs |-> gs, lamports |-> lamports, emitted |-> <<>>]
        created == IF gs.initialized THEN [err |-> Ok, lamports |-> lamports]
                   ELSE InitAccount(lamports, caller, FALSE)
    IN
    IF created.err # Ok THEN abort(created.err)
    ELSE IF ~(fee_bps <= MaxFeeBps) THEN abort("InvalidFee")
    ELSE [err |-> Ok,
          gs |-> [initialized |-> TRUE, admin |-> caller, fee_bps |-> fee_bps,
                  fee_wallet |-> fee_wallet, paused |-> FALSE],
          lamports |-> created.lamports,
          emitted |-> <<[kind |-> "GlobalStateInitialized", admin |-> caller,
                         fee_bps |-> fee_bps, fee_wallet |-> fee_wallet]>>]

InitializeTx(caller, fee_bps, fee_wallet) ==
    LET abort(e) == [err |-> e, gs |-> gs, lamports |-> lamports, emitted |-> <<>>]
        created == InitAccount(lamports, caller, gs.initialized)
    IN
    IF created.err # Ok THEN abort(created.err)
    ELSE IF ~(fee_bps <= MaxFeeBps) THEN abort("InvalidFee")
    ELSE [err |-> Ok,
          gs |-> [initialized |-> TRUE, admin |-> caller, fee_bps |-> fee_bps,
                  fee_wallet |-> fee_wallet, paused |-> FALSE],
          lamports |-> created.lamports,
          emitted |-> <<[kind |-> "GlobalStateInitialized", admin |-> caller,
                         fee_bps |-> fee_bps, fee_wallet |-> fee_wallet]>>]

Initialize ==
    /\ Explore
    /\ \E caller \in Users, fee_bps \in InitFeeInputs, fee_wallet \in InitFeeWalletInputs :
        LET o == InitializeTx(caller, fee_bps, fee_wallet) IN
        /\ gs' = o.gs
        /\ lamports' = o.lamports
        /\ txCount' = Committed(o.err)
        /\ pre' = Snapshot
        /\ last' = Outcome("initialize", caller, o.err, NoAddr,
                           [fee_bps |-> fee_bps, fee_wallet |-> fee_wallet],
                           o.emitted)
        /\ UNCHANGED <<merchants, payments, tokens, log, calc>>

---------------------------------------------------------------------------
(* register_merchant: instructions/register_merchant.rs                    *)

\* A PDA seed holds at most 32 bytes: an address cannot be derived from a
\* longer name.
MaxSeedLen == 32
SeedsValid(name) == Len(name) <= MaxSeedLen

RegisterMerchantTx(owner, settlement_wallet, settlement_token, name) ==
    LET abort(e) == [err |-> e, merchants |-> merchants, lamports |-> lamports,
                     emitted |-> <<>>]
        maddr == <<owner, name>>
        created == InitAccount(lamports, owner, merchants[maddr].initialized)
    IN
    IF ~SeedsValid(name) THEN abort("MaxSeedLengthExceeded")
    ELSE IF created.err # Ok THEN abort(created.err)
    ELSE IF ~(Len(name) <= MaxNameLen) THEN abort("NameTooLong")
    ELSE [err |-> Ok,
          merchants |-> [merchants EXCEPT ![maddr] =
              [initialized |-> TRUE, owner |-> owner,
               settlement_wallet |-> settlement_wallet,
               settlement_token |-> settlement_token,
               swap_enabled |-> FALSE, name |-> name]],
          lamports |-> created.lamports,
          emitted |-> <<[kind |-> "MerchantRegistered", owner |-> owner,
                         merchant |-> maddr,
                         settlement_wallet |-> settlement_wallet,
                         settlement_token |-> settlement_token,
                         name |-> name]>>]

RegisterMerchant ==
    /\ Explore
    /\ \E owner \in MerchantOwners, settlement_wallet \in RegisterWalletInputs,
       settlement_token \in RegisterTokenInputs, name \in RegisterNames :
        LET o == RegisterMerchantTx(owner, settlement_wallet, settlement_token,
                                    name) IN
        /\ merchants' = o.merchants
        /\ lamports' = o.lamports
        /\ last' = Outcome("register_merchant", owner, o.err,
                           IF SeedsValid(name) THEN <<owner, name>> ELSE NoAddr,
                           [settlement_wallet |-> settlement_wallet,
                            settlement_token |-> settlement_token,
                            name |-> name],
                           o.emitted)
        /\ txCount' = Committed(o.err)
        /\ pre' = Snapshot
        /\ UNCHANGED <<gs, payments, tokens, log, calc>>

---------------------------------------------------------------------------
(* update_merchant: instructions/update_merchant.rs                        *)

\* Variant: an absent swap_enabled is stored as false.
UpdatedMerchantResetSwap(m, new_name, settlement_wallet, settlement_token, swap_enabled) ==
    [m EXCEPT
        !.name = IF new_name # Nothing THEN new_name[1] ELSE @,
        !.settlement_wallet =
            IF settlement_wallet # None THEN settlement_wallet ELSE @,
        !.settlement_token =
            IF settlement_token # None THEN settlement_token ELSE @,
        !.swap_enabled = IF swap_enabled # Nothing THEN swap_enabled[1] ELSE FALSE]

\* lines 35-50
UpdatedMerchant(m, new_name, settlement_wallet, settlement_token, swap_enabled) ==
    [m EXCEPT
        !.name = IF new_name # Nothing THEN new_name[1] ELSE @,
        !.settlement_wallet =
            IF settlement_wallet # None THEN settlement_wallet ELSE @,
        !.settlement_token =
            IF settlement_token # None THEN settlement_token ELSE @,
        !.swap_enabled = IF swap_enabled # Nothing THEN swap_enabled[1] ELSE @]

\* lines 6-17: the UpdateMerchant accounts.
UpdateMerchantAccounts(caller, maddr, name) ==
    IF ~merchants[maddr].initialized THEN "AccountNotInitialized"
    ELSE IF maddr # <<caller, name>> THEN "ConstraintSeeds"
    ELSE IF merchants[maddr].owner # caller THEN "ConstraintHasOne"
    ELSE Ok

\* The account was allocated for a name of at most 32 bytes (state/merchant.rs
\* max_len): a longer one does not serialize back when the instruction exits.
UpdateMerchantTx(caller, maddr, name, new_name, settlement_wallet, settlement_token, swap_enabled) ==
    LET abort(e) == [err |-> e, merchants |-> merchants, emitted |-> <<>>]
        m == merchants[maddr]
        u == UpdatedMerchant(m, new_name, settlement_wallet, settlement_token,
                             swap_enabled)
    IN
    IF UpdateMerchantAccounts(caller, maddr, name) # Ok
    THEN abort(UpdateMerchantAccounts(caller, maddr, name))
    ELSE IF Len(u.name) > MaxNameLen THEN abort("AccountDidNotSerialize")
    ELSE [err |-> Ok,
          merchants |-> [merchants EXCEPT ![maddr] = u],
          emitted |-> <<[kind |-> "MerchantUpdated", owner |-> caller,
                         merchant |-> maddr, old_name |-> m.name,
                         new_name |-> new_name,
                         settlement_wallet |-> settlement_wallet,
                         settlement_token |-> settlement_token,
                         swap_enabled |-> swap_enabled]>>]

UpdateArgs(name, new_name, settlement_wallet, settlement_token, swap_enabled) ==
    [name |-> name, new_name |-> new_name,
     settlement_wallet |-> settlement_wallet,
     settlement_token |-> settlement_token, swap_enabled |-> swap_enabled]

UpdateFields(new_names, wallets, mints, swaps) ==
    [new_name : new_names, settlement_wallet : wallets,
     settlement_token : mints, swap_enabled : swaps]

\* Requests that set no field, one field, or all of them.
UpdateRequests ==
    UpdateFields({Nothing}, {None}, {None}, {Nothing})
    \cup UpdateFields(NewNameInputs, {None}, {None}, {Nothing})
    \cup UpdateFields({Nothing}, UpdateWalletInputs, {None}, {Nothing})
    \cup UpdateFields({Nothing}, {None}, UpdateTokenInputs, {Nothing})
    \cup UpdateFields({Nothing}, {None}, {None}, SwapInputs)
    \cup UpdateFields({Some(Cafe)}, UpdateWalletInputs, UpdateTokenInputs,
                      {Some(TRUE)})

UpdateMerchantStep(caller, maddr, args, o) ==
    /\ merchants' = o.merchants
    /\ txCount' = Committed(o.err)
    /\ pre' = Snapshot
    /\ last' = Outcome("update_merchant", caller, o.err, maddr, args, o.emitted)
    /\ UNCHANGED <<gs, payments, lamports, tokens, log, calc>>

\* The optional arguments are read only once the accounts are accepted.
UpdateMerchant ==
    /\ Explore
    /\ \E caller \in Users, maddr \in MerchantAddrs, name \in SeedNames :
        IF UpdateMerchantAccounts(caller, maddr, name) # Ok
        THEN UpdateMerchantStep(caller, maddr,
                 UpdateArgs(name, Nothing, None, None, Nothing),
                 UpdateMerchantTx(caller, maddr, name, Nothing, None, None,
                                  Nothing))
        ELSE \E u \in UpdateRequests :
                UpdateMerchantStep(caller, maddr,
                    UpdateArgs(name, u.new_name, u.settlement_wallet,
                               u.settlement_token, u.swap_enabled),
                    UpdateMerchantTx(caller, maddr, name, u.new_name,
                                     u.settlement_wallet, u.settlement_token,
                                     u.swap_enabled))

---------------------------------------------------------------------------
(* Admin instructions: instructions/admin.rs                               *)

\* Variant: the admin constraint is missing from the accounts.
AdminAuthAnyone(caller) ==
    IF ~gs.initialized THEN "AccountNotInitialized" ELSE Ok

\* lines 6-16: the AdminAuth accounts.
AdminAuth(caller) ==
    IF ~gs.initialized THEN "AccountNotInitialized"
    ELSE IF gs.admin # caller THEN "Unauthorized"
    ELSE Ok

AdminStep(op, caller, arg, o) ==
    /\ Explore
    /\ gs' = o.gs
    /\ txCount' = Committed(o.err)
    /\ pre' = Snapshot
    /\ last' = Outcome(op, caller, o.err, NoAddr, [value |-> arg], o.emitted)
    /\ UNCHANGED <<merchants, payments, lamports, tokens, log, calc>>

\* Variant: the new rate is stored without the bound check.
SetFeeTxUnbounded(caller, new_fee_bps) ==
    LET abort(e) == [err |-> e, gs |-> gs, emitted |-> <<>>] IN
    IF AdminAuth(caller) # Ok THEN abort(AdminAuth(caller))
    ELSE [err |-> Ok, gs |-> [gs EXCEPT !.fee_bps = new_fee_bps],
          emitted |-> <<[kind |-> "FeeUpdated", admin |-> caller,
                         old_fee_bps |-> gs.fee_bps,
                         new_fee_bps |-> new_fee_bps]>>]

\* Variant: the bound is strict, 100% is refused.
SetFeeTxStrict(caller, new_fee_bps) ==
    LET abort(e) == [err |-> e, gs |-> gs, emitted |-> <<>>] IN
    IF AdminAuth(caller) # Ok THEN abort(AdminAuth(caller))
    ELSE IF ~(new_fee_bps < MaxFeeBps) THEN abort("InvalidFee")
    ELSE [err |-> Ok, gs |-> [gs EXCEPT !.fee_bps = new_fee_bps],
          emitted |-> <<[kind |-> "FeeUpdated", admin |-> caller,
                         old_fee_bps |-> gs.fee_bps,
                         new_fee_bps |-> new_fee_bps]>>]

SetFeeTx(caller, new_fee_bps) ==
    LET abort(e) == [err |-> e, gs |-> gs, emitted |-> <<>>] IN
    IF AdminAuth(caller) # Ok THEN abort(AdminAuth(caller))
    ELSE IF ~(new_fee_bps <= MaxFeeBps) THEN abort("InvalidFee")
    ELSE [err |-> Ok, gs |-> [gs EXCEPT !.fee_bps = new_fee_bps],
          emitted |-> <<[kind |-> "FeeUpdated", admin |-> caller,
                         old_fee_bps |-> gs.fee_bps,
                         new_fee_bps |-> new_fee_bps]>>]

SetFee ==
    \E caller \in Users, new_fee_bps \in SetFeeInputs :
        AdminStep("set_fee", caller, new_fee_bps, SetFeeTx(caller, new_fee_bps))

\* Variant: changing the fee wallet also lifts the pause.
SetFeeWalletTxUnpauses(caller, new_fee_wallet) ==
    LET abort(e) == [err |-> e, gs |-> gs, emitted |-> <<>>] IN
    IF AdminAuth(caller) # Ok THEN abort(AdminAuth(caller))
    ELSE [err |-> Ok,
          gs |-> [gs EXCEPT !.fee_wallet = new_fee_wallet, !.paused = FALSE],
          emitted |-> <<[kind |-> "FeeWalletUpdated", admin |-> caller,
                         old_fee_wallet |-> gs.fee_wallet,
                         new_fee_wallet |-> new_fee_wallet]>>]

SetFeeWalletTx(caller, new_fee_wallet) ==
    LET abort(e) == [err |-> e, gs |-> gs, emitted |-> <<>>] IN
    IF AdminAuth(caller) # Ok THEN abort(AdminAuth(caller))
    ELSE [err |-> Ok, gs |-> [gs EXCEPT !.fee_wallet = new_fee_wallet],
          emitted |-> <<[kind |-> "FeeWalletUpdated", admin |-> caller,
                         old_fee_wallet |-> gs.fee_wallet,
                         new_fee_wallet |-> new_fee_wallet]>>]

SetFeeWallet ==
    \E caller \in Users, new_fee_wallet \in SetFeeWalletInputs :
        AdminStep("set_fee_wallet", caller, new_fee_wallet,
                  SetFeeWalletTx(caller, new_fee_wallet))

SetPausedTx(caller, paused) ==
    LET abort(e) == [err |-> e, gs |-> gs, emitted |-> <<>>] IN
    IF AdminAuth(caller) # Ok THEN abort(AdminAuth(caller))
    ELSE [err |-> Ok, gs |-> [gs EXCEPT !.paused = paused],
          emitted |-> <<[kind |-> "PausedStatusUpdated", admin |-> caller,
                         paused |-> paused]>>]

SetPaused ==
    \E caller \in Users, paused \in BOOLEAN :
        AdminStep("set_paused", caller, paused, SetPausedTx(caller, paused))

\* Variant: update_admin takes accounts without the admin constraint.
UpdateAdminTxUnchecked(caller, new_admin) ==
    LET abort(e) == [err |-> e, gs |-> gs, emitted |-> <<>>] IN
    IF ~gs.initialized THEN abort("AccountNotInitialized")
    ELSE [err |-> Ok, gs |-> [gs EXCEPT !.admin = new_admin],
          emitted |-> <<[kind |-> "AdminUpdated", old_admin |-> gs.admin,
                         new_admin |-> new_admin]>>]

UpdateAdminTx(caller, new_admin) ==
    LET abort(e) == [err |-> e, gs |-> gs, emitted |-> <<>>] IN
    IF AdminAuth(caller) # Ok THEN abort(AdminAuth(caller))
    ELSE [err |-> Ok, gs |-> [gs EXCEPT !.admin = new_admin],
          emitted |-> <<[kind |-> "AdminUpdated", old_admin |-> gs.admin,
                         new_admin |-> new_admin]>>]

UpdateAdmin ==
    \E caller \in Users, new_admin \in AdminInputs :
        AdminStep("update_admin", caller, new_admin, UpdateAdminTx(caller, new_admin))

---------------------------------------------------------------------------
(* The program: nothing exists when it is deployed.                        *)

Init ==
    /\ gs = NoGlobalState
    /\ merchants = [a \in MerchantAddrs |-> NoMerchant]
    /\ payments = {}
    /\ lamports = [a \in Wallets |-> IF a \in Users THEN Funds ELSE 0]
    /\ tokens = [t \in TokenAccounts |-> TokenFunds]
    /\ log = <<>>
    /\ txCount = 0
    /\ last = NoOutcome
    /\ pre = Snapshot
    /\ calc = NoCalc

Next ==
    \/ Initialize
    \/ RegisterMerchant
    \/ UpdateMerchant
    \/ SetFee
    \/ SetFeeWallet
    \/ SetPaused
    \/ UpdateAdmin
    \/ ProcessPayment

Spec == Init /\ [][Next]_vars

---------------------------------------------------------------------------
(* The fee calculator on its own: process_payment.rs lines 74-83 applied   *)
(* once to every amount the handler lets through (amount > 0, line 71) and *)
(* every fee rate the configuration can hold (fee_bps <= 10000).           *)

FeeAmounts == 1..U64Max
FeeRates == 0..MaxFeeBps

ComputeFee ==
    /\ calc.err = None
    /\ \E amount \in FeeAmounts, fee_bps \in FeeRates :
        LET c == CalcFee(amount, fee_bps) IN
        calc' = [amount |-> amount, fee_bps |-> fee_bps, err |-> c.err,
                 fee |-> c.fee, merchant_amount |-> c.merchant_amount]
    /\ UNCHANGED <<gs, merchants, payments, lamports, tokens, log, txCount,
                   last, pre>>

SpecFee == Init /\ [][ComputeFee]_vars

---------------------------------------------------------------------------
(* Properties.  They read the last transaction (`last`), the state it      *)
(* started from (`pre`) and the state it left.                             *)

IsPayment == last.op = "process_payment"
Settled == IsPayment /\ last.err = Ok
PaymentKey == PaymentAddr(last.caller, last.pid)
UsedBefore == PaymentKey \in {p.addr : p \in pre.payments}
NothingChanged == Snapshot = pre
NoEffects == NothingChanged /\ last.legs = <<>> /\ last.emitted = <<>>
\* The merchant the payment names, as the transaction found it.
PaidMerchant == pre.merchants[last.merchant]

\* C1: the ledger never holds two Payment Records with the same payer and
\* payment_id, no key is notified as settled twice, and of two otherwise
\* valid requests for the same key the later one fails with the
\* allocation-collision error.
C1_OneRecordPerKey ==
    /\ \A p, q \in payments :
        (p.payer = q.payer /\ p.payment_id = q.payment_id) => p = q
    /\ \A i, j \in DOMAIN log :
        (log[i].payer = log[j].payer /\ log[i].payment_id = log[j].payment_id)
            => i = j
    /\ (IsPayment /\ UsedBefore /\ PaidMerchant.initialized) =>
           last.err = "AccountAlreadyInUse"

\* A request lost the race for a key its rival settled.
C1_RaceLoser ==
    /\ IsPayment /\ UsedBefore /\ last.err = "AccountAlreadyInUse"
    /\ Cardinality({p \in payments : p.addr = PaymentKey}) = 1

\* C2 as stated: a process_payment whose (payer, payment_id) was settled
\* before fails with the allocation-collision error, whatever its other
\* arguments are.
C2_ReplayAlwaysCollision ==
    (IsPayment /\ UsedBefore) => last.err = "AccountAlreadyInUse"

\* C2, amended: a process_payment whose (payer, payment_id) was settled
\* before fails and has no effect: no balance changes, no record is added
\* and no notification is emitted.  It fails with the allocation-collision
\* error when it names a registered Merchant Record, whatever its other
\* arguments are, and with AccountNotInitialized when it names one that was
\* never registered.
C2_ReplayRejected ==
    (IsPayment /\ UsedBefore) =>
        /\ last.err = (IF PaidMerchant.initialized THEN "AccountAlreadyInUse"
                       ELSE "AccountNotInitialized")
        /\ NoEffects
        /\ Cardinality({i \in DOMAIN log :
               PaymentAddr(log[i].payer, log[i].payment_id) = PaymentKey}) = 1

\* A replay arrives while the program runs and the payer could pay again.
C2_Replayed ==
    /\ IsPayment /\ UsedBefore /\ last.err = "AccountAlreadyInUse"
    /\ ~gs.paused
    /\ lamports[last.caller] >= Rent + 1

\* C3 as stated, in the case it names: while paused, a process_payment with
\* an already-used payment identifier fails with Paused.
C3_PausedUsedKeyFailsPaused ==
    (IsPayment /\ pre.gs.paused /\ UsedBefore /\ last.args.name = Shop) =>
        last.err = "Paused"

\* Account validation of ProcessPayment accepted the request.
Validated ==
    /\ pre.gs.initialized
    /\ PaidMerchant.initialized
    /\ ~UsedBefore
    /\ pre.lamports[last.caller] >= Rent
    /\ last.merchant = <<PaidMerchant.owner, last.args.name>>

AccountErrors ==
    {"AccountNotInitialized", "AccountAlreadyInUse", "InsufficientLamports",
     "ConstraintSeeds"}

\* C3, amended: while paused every process_payment fails and changes nothing,
\* so nothing settles until the program is unpaused.  The error is Paused
\* exactly when account validation accepts the request; otherwise it is the
\* validation error, AccountAlreadyInUse for an already-used identifier at a
\* registered merchant.
C3_PausedRejectsEveryPayment ==
    (IsPayment /\ pre.gs.paused) =>
        /\ last.err # Ok
        /\ NoEffects
        /\ last.err \in {"Paused"} \cup AccountErrors
        /\ last.err = "Paused" <=> Validated
        /\ (UsedBefore /\ PaidMerchant.initialized) =>
               last.err = "AccountAlreadyInUse"

\* A payment is refused with Paused after an earlier one had settled.
C3_RefusedWhilePaused ==
    /\ IsPayment /\ pre.gs.paused /\ last.err = "Paused"
    /\ payments # {}

\* C4: for every amount in 1..u64::MAX and every fee_bps in 0..10000 the
\* calculator succeeds with fee = floor(amount * fee_bps / 10000) and
\* merchant_amount = amount - fee, both within the amount's width: there is
\* no overflow, wrap-around or underflow, and fee + merchant_amount = amount.
C4_FeeExact ==
    calc.err # None =>
        /\ calc.err = Ok
        /\ calc.fee * 10000 <= calc.amount * calc.fee_bps
        /\ calc.amount * calc.fee_bps < (calc.fee + 1) * 10000
        /\ calc.fee \in 0..calc.amount
        /\ calc.merchant_amount = calc.amount - calc.fee
        /\ calc.merchant_amount \in 0..U64Max
        /\ calc.fee + calc.merchant_amount = calc.amount

\* The largest amount at the largest rate: the product leaves the amount's
\* width and the whole amount is the fee.
C4_FullFeeOfMaxAmount ==
    /\ calc.err = Ok
    /\ calc.amount = U64Max /\ calc.fee_bps = MaxFeeBps
    /\ calc.amount * calc.fee_bps > U64Max
    /\ calc.fee = U64Max /\ calc.merchant_amount = 0

\* Balances after a transfer leg: the source is debited and the destination
\* credited, so a leg from an account to itself nets to nothing.
Moved(bal, leg) ==
    [a \in DOMAIN bal |->
        bal[a] - (IF a = leg.from THEN leg.amount ELSE 0)
               + (IF a = leg.to THEN leg.amount ELSE 0)]

AfterLegs(bal, legs) == Moved(Moved(bal, legs[1]), legs[2])

\* The payer's deposit into the Payment Record account it creates.
RentPaid == [pre.lamports EXCEPT ![last.caller] = @ - Rent]

\* C5: a failing process_payment leaves every balance, the ledger and the
\* notification log (and the configuration and merchants) as they were,
\* also when a transfer fails after the fee leg, and its key stays unused
\* unless it was used before; a succeeding one has moved both legs, added
\* its record and emitted its notification.
C5_AllOrNothing ==
    IsPayment =>
        IF last.err # Ok
        THEN /\ NoEffects
             /\ ~UsedBefore => PaymentKey \notin PaymentAddrs
        ELSE /\ Len(last.legs) = 2 /\ Len(last.emitted) = 1
             /\ last.legs[1].amount + last.legs[2].amount = last.args.amount
             /\ IF last.path = "spl"
                THEN /\ tokens = AfterLegs(pre.tokens, last.legs)
                     /\ lamports = RentPaid
                ELSE /\ lamports = AfterLegs(RentPaid, last.legs)
                     /\ tokens = pre.tokens
             /\ Cardinality(payments \ pre.payments) = 1
             /\ pre.payments \subseteq payments
             /\ \A p \in payments \ pre.payments :
                    p.addr = PaymentKey /\ p.amount = last.args.amount
             /\ log = pre.log \o last.emitted
             /\ gs = pre.gs /\ merchants = pre.merchants

\* The merchant transfer failed on a frozen account after a fee leg of a
\* positive amount; nothing changed, and the same key can still be settled.
C5_MerchantLegFailed ==
    /\ IsPayment /\ last.err = "AccountFrozen" /\ NothingChanged
    /\ CalcFee(last.args.amount, gs.fee_bps).fee > 0
    /\ PaymentKey \notin PaymentAddrs
    /\ \E acc \in SplAccounts :
        ProcessPaymentTx(last.caller, last.pid, last.merchant, last.args.name,
                         last.args.amount, acc).err = Ok

RECURSIVE SumOf(_, _)
SumOf(bal, accounts) ==
    IF accounts = {} THEN 0
    ELSE LET a == CHOOSE x \in accounts : TRUE IN
         bal[a] + SumOf(bal, accounts \ {a})

RECURSIVE DepositsOf(_)
DepositsOf(records) ==
    IF records = {} THEN 0
    ELSE LET p == CHOOSE x \in records : TRUE IN
         p.lamports + DepositsOf(records \ {p})

\* Lamports held by the wallets and by the Payment Record accounts.
TotalNative(l, records) == SumOf(l, Wallets) + DepositsOf(records)

\* The two legs the specification prescribes for the native path, computed
\* from the configuration and the merchant in force when the payment ran.
ExpectedFee == (last.args.amount * pre.gs.fee_bps) \div 10000
ExpectedNativeLegs ==
    <<Leg(Default, last.caller, pre.gs.fee_wallet, ExpectedFee),
      Leg(Default, last.caller, PaidMerchant.settlement_wallet,
          last.args.amount - ExpectedFee)>>

SettledNative == Settled /\ last.path = "native"

\* C6 as stated: a successful native payment debits the payer exactly
\* amount, credits fee to the configured fee collector and merchant_amount to
\* the merchant's settlement address, fee leg first, and succeeds only with
\* those two destinations supplied.
C6_NativeDebitsExactlyAmount ==
    SettledNative =>
        /\ last.legs = ExpectedNativeLegs
        /\ lamports = AfterLegs(pre.lamports, ExpectedNativeLegs)
        /\ SumOf(lamports, Wallets) = SumOf(pre.lamports, Wallets)
        /\ last.args.acc.merchant_wallet = PaidMerchant.settlement_wallet
        /\ last.args.acc.fee_wallet = pre.gs.fee_wallet

\* C6, amended: a successful native payment debits the payer amount plus
\* the rent deposit of the Payment Record it creates, which that record
\* account holds; fee goes to the configured fee collector, then
\* merchant_amount to the merchant's settlement address; the lamports of
\* wallets and records together are conserved; and it succeeds only with
\* those two destinations supplied.
C6_NativeSettlement ==
    SettledNative =>
        /\ last.legs = ExpectedNativeLegs
        /\ lamports = AfterLegs(RentPaid, ExpectedNativeLegs)
        /\ \A p \in payments \ pre.payments : p.lamports = Rent
        /\ TotalNative(lamports, payments) = TotalNative(pre.lamports, pre.payments)
        /\ tokens = pre.tokens
        /\ last.args.acc.merchant_wallet = PaidMerchant.settlement_wallet
        /\ last.args.acc.fee_wallet = pre.gs.fee_wallet

\* A native payment settled with both legs positive among three parties: the
\* payer lost the amount and the rent deposit.
C6_NativeSettledThreeParties ==
    /\ SettledNative
    /\ last.legs[1].amount > 0 /\ last.legs[2].amount > 0
    /\ Cardinality({last.caller, last.legs[1].to, last.legs[2].to}) = 3
    /\ lamports[last.caller] = pre.lamports[last.caller] - last.args.amount - Rent

\* C7: on every successful settlement the fee leg is credited to an account
\* of the configured fee collector and the merchant leg to an account of the
\* merchant's settlement address: the wallets themselves in the native path,
\* token accounts they own in the fungible path.
C7_LegsReachDesignatedOwners ==
    Settled =>
        IF last.path = "spl"
        THEN /\ TAOwner(last.legs[1].to) = pre.gs.fee_wallet
             /\ TAOwner(last.legs[2].to) = PaidMerchant.settlement_wallet
        ELSE /\ last.legs[1].to = pre.gs.fee_wallet
             /\ last.legs[2].to = PaidMerchant.settlement_wallet

NativeAttempt == IsPayment /\ last.path = "native"

\* C8: a native payment that reaches asset validation at a merchant with a
\* non-default settlement_token fails with InvalidToken while swap_enabled is
\* false and does not once it is true; register_merchant creates the record
\* with swap_enabled false, and only an update_merchant by the owner that
\* passes Some(true) raises the flag.
C8_NativeNeedsSwapTolerance ==
    /\ (NativeAttempt /\ PaidMerchant.settlement_token # Default) =>
           (last.err = "InvalidToken" <=> ~PaidMerchant.swap_enabled)
    /\ (last.op = "register_merchant" /\ last.err = Ok) =>
           ~merchants[last.merchant].swap_enabled
    /\ \A a \in MerchantAddrs :
           (merchants[a].swap_enabled /\ ~pre.merchants[a].swap_enabled) =>
               /\ last.op = "update_merchant" /\ last.err = Ok
               /\ last.merchant = a
               /\ last.caller = pre.merchants[a].owner
               /\ last.args.swap_enabled = Some(TRUE)

\* A native payment settled at a merchant that names a settlement token and
\* had been made swap tolerant.
C8_NativeAcceptedAfterSwapEnabled ==
    /\ SettledNative
    /\ PaidMerchant.settlement_token # Default
    /\ PaidMerchant.swap_enabled

\* A fungible-path request with its mint and its three token accounts.
SplAttempt ==
    /\ IsPayment /\ last.path = "spl"
    /\ last.args.acc.mint # None
    /\ last.args.acc.payer_ta # None
    /\ last.args.acc.merchant_ta # None
    /\ last.args.acc.fee_ta # None

AssetAccepted ==
    \/ PaidMerchant.settlement_token = Default
    \/ PaidMerchant.settlement_token = last.args.acc.mint

HoldingsValid ==
    /\ \A t \in {last.args.acc.payer_ta, last.args.acc.merchant_ta,
                  last.args.acc.fee_ta} : TAMint(t) = last.args.acc.mint
    /\ TAOwner(last.args.acc.payer_ta) = last.caller

Covered == pre.tokens[last.args.acc.payer_ta] >= last.args.amount

ExpectedSplLegs ==
    <<Leg(last.args.acc.mint, last.args.acc.payer_ta, last.args.acc.fee_ta,
          ExpectedFee),
      Leg(last.args.acc.mint, last.args.acc.payer_ta, last.args.acc.merchant_ta,
          last.args.amount - ExpectedFee)>>

C10_PathFollowsMint ==
    Settled =>
        /\ last.path = "spl" <=> last.args.acc.mint # None
        /\ last.legs[1].asset = last.legs[2].asset
        /\ last.emitted[1].token = Default <=> last.path = "native"
        /\ last.emitted[1].token = last.legs[1].asset

AdminOps == {"set_fee", "set_fee_wallet", "set_paused", "update_admin"}
\* An admin mutation on an existing Global Configuration.
IsAdminOp == last.op \in AdminOps /\ pre.gs.initialized
ByAdmin == last.caller = pre.gs.admin

\* C11: an admin mutation (set_fee, set_fee_wallet, set_paused, update_admin)
\* by an identity other than the current admin fails with Unauthorized,
\* leaves Global Configuration and everything else unchanged and emits
\* nothing, whatever its argument, a fee above 10000 included.
C11_NonAdminRefused ==
    (IsAdminOp /\ ~ByAdmin) => (last.err = "Unauthorized" /\ NoEffects)

\* A stranger's set_fee with a rate above 10000 is refused as Unauthorized.
C11_StrangerSetsExcessFee ==
    /\ IsAdminOp /\ ~ByAdmin
    /\ last.op = "set_fee" /\ last.args.value > 10000
    /\ last.err = "Unauthorized"

\* The only admin-mutation argument the bound check can refuse.
ExcessFee == last.op = "set_fee" /\ last.args.value > 10000

\* C12: exactly the current admin is authorized: an admin mutation fails
\* with Unauthorized exactly when its caller is not the admin, and the
\* admin's own succeed (but a set_fee above 10000); the admin field changes
\* only by a successful update_admin of the current admin, to its argument;
\* and once update_admin has replaced the admin, every admin mutation by the
\* previous admin is Unauthorized and those by the new one are accepted.
C12_OnlyCurrentAdmin ==
    /\ IsAdminOp =>
           /\ last.err = "Unauthorized" <=> ~ByAdmin
           /\ (ByAdmin /\ ~ExcessFee) => last.err = Ok
    /\ (pre.gs.initialized /\ gs.admin # pre.gs.admin) =>
           /\ last.op = "update_admin" /\ last.err = Ok /\ ByAdmin
    /\ (last.op = "update_admin" /\ last.err = Ok) =>
           gs = [pre.gs EXCEPT !.admin = last.args.value]
    /\ (last.op = "update_admin" /\ last.err = Ok /\ gs.admin # pre.gs.admin) =>
           /\ \A v \in SetFeeInputs :
                  SetFeeTx(pre.gs.admin, v).err = "Unauthorized"
           /\ \A w \in SetFeeWalletInputs :
                  /\ SetFeeWalletTx(pre.gs.admin, w).err = "Unauthorized"
                  /\ SetFeeWalletTx(gs.admin, w).err = Ok
           /\ \A b \in BOOLEAN :
                  /\ SetPausedTx(pre.gs.admin, b).err = "Unauthorized"
                  /\ SetPausedTx(gs.admin, b).err = Ok
           /\ \A a \in Users :
                  /\ UpdateAdminTx(pre.gs.admin, a).err = "Unauthorized"
                  /\ UpdateAdminTx(gs.admin, a).err = Ok
           /\ SetFeeTx(gs.admin, 10000).err = Ok

\* The admin handed the role to someone else.
C12_AdminRotated ==
    /\ last.op = "update_admin" /\ last.err = Ok
    /\ pre.gs.initialized /\ gs.admin # pre.gs.admin
    /\ gs.admin = last.args.value

\* C13: Global Configuration fee_bps is at most 10000 in every reachable
\* state; an initialize or set_fee asking for more is refused.
C13_FeeBounded ==
    /\ gs.fee_bps <= 10000
    /\ (last.op \in {"initialize", "set_fee"} /\ last.err = Ok) =>
           gs.fee_bps = (IF last.op = "set_fee" THEN last.args.value
                         ELSE last.args.fee_bps)

\* The admin's set_fee above the bound was refused, the rate is as before.
C13_ExcessFeeRefused ==
    /\ IsAdminOp /\ ByAdmin /\ ExcessFee
    /\ last.err = "InvalidFee"
    /\ gs.fee_bps = pre.gs.fee_bps

\* C14: set_fee(v) by the current admin succeeds and stores v exactly when
\* v <= 10000, and fails with InvalidFee changing nothing when v > 10000;
\* the rate changes in no other way, and a settlement takes its fee at the
\* rate stored when it runs.
C14_SetFee ==
    /\ (IsAdminOp /\ ByAdmin /\ last.op = "set_fee") =>
           IF last.args.value <= 10000
           THEN /\ last.err = Ok
                /\ gs = [pre.gs EXCEPT !.fee_bps = last.args.value]
           ELSE last.err = "InvalidFee" /\ NoEffects
    /\ (pre.gs.initialized /\ gs.fee_bps # pre.gs.fee_bps) =>
           last.op = "set_fee" /\ last.err = Ok
    /\ Settled =>
           /\ last.emitted[1].fee = ExpectedFee
           /\ last.legs[1].amount = ExpectedFee
           /\ last.legs[2].amount = last.args.amount - ExpectedFee

\* A settlement at 100%, a rate only set_fee(10000) can have stored: the
\* whole amount is the fee.
C14_SettledAtFullFee ==
    /\ Settled
    /\ pre.gs.fee_bps = 10000
    /\ last.emitted[1].fee = last.args.amount
    /\ last.legs[2].amount = 0

\* The payment-processed notifications emitted so far, in order.
PaymentLog == SelectSeq(log, LAMBDA e : e.kind = "PaymentProcessed")
\* The record a notification reports.
RecordOf(e) == {p \in payments : /\ p.payer = e.payer
                                  /\ p.payment_id = e.payment_id
                                  /\ p.amount = e.amount}
\* The record of the settlement that just committed.
NewRecord ==
    [addr |-> PaymentKey, lamports |-> Rent, payer |-> last.caller,
     merchant |-> last.merchant, amount |-> last.args.amount,
     payment_id |-> last.pid]

\* C15: a successful process_payment adds exactly one Payment Record and
\* one payment-processed notification, a failed one adds neither; so the
\* notifications are as many as the records, each reports the payer, the
\* identifier and the gross amount of a record of its own, and its fee is
\* floor(amount * fee_bps / 10000) at the rate in force at settlement.
C15_OneRecordOneNotification ==
    /\ Len(PaymentLog) = Cardinality(payments)
    /\ \A i \in 1..Len(PaymentLog) : Cardinality(RecordOf(PaymentLog[i])) = 1
    /\ \A i, j \in 1..Len(PaymentLog) :
           RecordOf(PaymentLog[i]) = RecordOf(PaymentLog[j]) => i = j
    /\ IF Settled
       THEN /\ Cardinality(payments) = Cardinality(pre.payments) + 1
            /\ pre.payments \subseteq payments
            /\ Len(last.emitted) = 1
            /\ log = pre.log \o last.emitted
            /\ last.emitted[1].kind = "PaymentProcessed"
            /\ last.emitted[1].payer = last.caller
            /\ last.emitted[1].payment_id = last.pid
            /\ last.emitted[1].amount = last.args.amount
            /\ last.emitted[1].fee =
                   (last.args.amount * pre.gs.fee_bps) \div 10000
       ELSE /\ payments = pre.payments
            /\ log = pre.log
            /\ IsPayment => last.emitted = <<>>

\* Two settlements, at different rates, left two records and two
\* notifications; the later one took a fee and kept the gross amount.
C15_TwoSettlementsTwoNotifications ==
    /\ Settled
    /\ Cardinality(payments) = 2 /\ Len(PaymentLog) = 2
    /\ PaymentLog[2].fee > 0
    /\ PaymentLog[2].amount > PaymentLog[2].fee

\* C16: the Payment Record of a successful settlement holds the payer, the
\* settled Merchant Record's address, the gross amount and the payment
\* identifier, at the address derived from (payer, payment_id); no later
\* operation of any kind changes or removes a record.
C16_RecordContentsPermanent ==
    /\ Settled =>
           /\ NewRecord \notin pre.payments
           /\ payments = pre.payments \cup {NewRecord}
           /\ PaidMerchant.initialized
    /\ pre.payments \subseteq payments
    /\ \A p \in payments : p.addr = PaymentAddr(p.payer, p.payment_id)
    /\ \A p, q \in payments : p.addr = q.addr => p = q

\* The merchant a record refers to was updated by its owner afterwards and
\* the record is as it was.
C16_RecordSurvivesMerchantUpdate ==
    /\ last.op = "update_merchant" /\ last.err = Ok
    /\ merchants[last.merchant] # pre.merchants[last.merchant]
    /\ \E p \in payments : p.merchant = last.merchant /\ p.amount > 0
    /\ payments = pre.payments

\* The checks of a settlement in the stated order, each with the error it
\* reports and whether the request fails it in the state before the call.
CommonChecks(amount) ==
    <<[err |-> "Paused", fails |-> pre.gs.paused],
      [err |-> "InvalidAmount", fails |-> amount = 0],
      [err |-> "CalculationError",
       fails |-> amount * pre.gs.fee_bps > U128Max]>>

NativeChecks(amount, acc) ==
    <<[err |-> "InvalidToken",
       fails |-> /\ PaidMerchant.settlement_token # Default
                 /\ ~PaidMerchant.swap_enabled],
      [err |-> "InvalidMerchantWallet",
       fails |-> acc.merchant_wallet # PaidMerchant.settlement_wallet],
      [err |-> "InvalidFeeWallet",
       fails |-> acc.fee_wallet # pre.gs.fee_wallet],
      [err |-> "InsufficientBalance",
       fails |-> RentPaid[last.caller] < amount]>>

SplChecks(amount, acc) ==
    LET held == {acc.payer_ta, acc.merchant_ta, acc.fee_ta} \ {None} IN
    <<[err |-> "MissingMint", fails |-> acc.mint = None],
      [err |-> "MissingAccount",
       fails |-> None \in {acc.payer_ta, acc.merchant_ta, acc.fee_ta}],
      [err |-> "InvalidToken",
       fails |-> /\ PaidMerchant.settlement_token # Default
                 /\ PaidMerchant.settlement_token # acc.mint],
      [err |-> "InvalidTokenAccount",
       fails |-> \/ \E t \in held : TAMint(t) # acc.mint
                 \/ /\ acc.payer_ta # None
                    /\ TAOwner(acc.payer_ta) # last.caller],
      [err |-> "InsufficientBalance",
       fails |-> /\ acc.payer_ta # None
                 /\ pre.tokens[acc.payer_ta] < amount]>>

ChecksInOrder(amount, acc) ==
    CommonChecks(amount)
        \o (IF acc.token_program THEN SplChecks(amount, acc)
            ELSE NativeChecks(amount, acc))

\* The error of the first failing check, Ok when every check passes.
FirstFailure(amount, acc) ==
    LET cs == ChecksInOrder(amount, acc)
        failing == {i \in 1..Len(cs) : cs[i].fails}
    IN IF failing = {} THEN Ok
       ELSE cs[CHOOSE i \in failing : \A j \in failing : i <= j].err

\* Errors of the two transfers, which run after every check.
TransferErrors == {"AccountFrozen", "InsufficientFunds", "MintMismatch",
                   "OwnerMismatch"}

\* C17 as stated: every process_payment reports the error of the first
\* failing check in the order Paused, InvalidAmount, CalculationError, asset
\* path validation, InsufficientBalance.
C17_FirstFailingCheckAlways ==
    (IsPayment /\ FirstFailure(last.args.amount, last.args.acc) # Ok) =>
        last.err = FirstFailure(last.args.amount, last.args.acc)

\* C17, amended: a process_payment whose accounts pass validation reports
\* the error of the first failing check in the order Paused, InvalidAmount,
\* CalculationError, then InvalidToken, InvalidMerchantWallet,
\* InvalidFeeWallet, InsufficientBalance on the native path and MissingMint,
\* MissingAccount, InvalidToken, InvalidTokenAccount, InsufficientBalance on
\* the fungible path; a paused call fails with Paused whatever its amount
\* and accounts, a call with amount 0 fails with InvalidAmount whatever its
\* accounts.  A request that account validation rejects fails with the
\* validation error before any of these checks.
C17_FirstFailingCheckOnceValidated ==
    /\ (IsPayment /\ Validated) =>
           LET first == FirstFailure(last.args.amount, last.args.acc) IN
           /\ first # Ok => last.err = first
           /\ first = Ok => last.err \in {Ok} \cup TransferErrors
           /\ last.err = "Paused" =>
                  \A a \in Amounts, acc \in NativeAccounts \cup SplAccounts :
                      /\ FirstFailure(a, acc) = "Paused"
                      /\ ProcessPaymentTx(last.caller, last.pid, last.merchant,
                                          last.args.name, a, acc).err = "Paused"
           /\ last.err = "InvalidAmount" =>
                  \A acc \in NativeAccounts \cup SplAccounts :
                      /\ FirstFailure(0, acc) = "InvalidAmount"
                      /\ ProcessPaymentTx(last.caller, last.pid, last.merchant,
                                          last.args.name, 0, acc).err
                             = "InvalidAmount"
    /\ (IsPayment /\ ~Validated) => last.err \in AccountErrors

\* A native request with both destinations wrong is refused for the
\* merchant wallet; with the program running, the same request with amount
\* 0 is refused for the amount.
C17_EarlierCheckWins ==
    /\ IsPayment /\ Validated /\ last.path = "native"
    /\ last.args.acc.merchant_wallet # PaidMerchant.settlement_wallet
    /\ last.args.acc.fee_wallet # pre.gs.fee_wallet
    /\ last.err = "InvalidMerchantWallet"
    /\ ProcessPaymentTx(last.caller, last.pid, last.merchant, last.args.name,
                        0, last.args.acc).err = "InvalidAmount"

IsBootstrap == last.op = "initialize"

\* C18 as stated, its last clause: an initialize with fee_bps above 10000
\* fails with InvalidFee and creates nothing.
C18_ExcessFeeAlwaysInvalidFee ==
    (IsBootstrap /\ last.args.fee_bps > 10000) =>
        (last.err = "InvalidFee" /\ NoEffects)

\* C18, amended: initialize succeeds at most once.  On a program without
\* Global Configuration, called by someone able to fund the account, it
\* fails with InvalidFee and creates nothing when fee_bps is above 10000,
\* and otherwise creates Global Configuration with admin = caller, the given
\* fee_bps and fee_wallet and paused = false, at the caller's expense; a
\* caller unable to fund the account fails before the fee is looked at.  Once Global Configuration exists every initialize,
\* by anyone, with any arguments and after any admin mutation, fails with
\* the allocation collision (also when fee_bps is above 10000) and changes
\* nothing; Global Configuration is never removed.
C18_BootstrapOnce ==
    /\ IsBootstrap =>
           IF pre.gs.initialized
           THEN last.err = "AccountAlreadyInUse" /\ NoEffects
           ELSE IF pre.lamports[last.caller] < Rent
           THEN last.err = "InsufficientLamports" /\ NoEffects
           ELSE IF last.args.fee_bps > 10000
           THEN last.err = "InvalidFee" /\ NoEffects /\ ~gs.initialized
           ELSE /\ last.err = Ok
                /\ gs = [initialized |-> TRUE, admin |-> last.caller,
                         fee_bps |-> last.args.fee_bps,
                         fee_wallet |-> last.args.fee_wallet,
                         paused |-> FALSE]
                /\ lamports = RentPaid
    /\ (gs.initialized /\ ~pre.gs.initialized) =>
           IsBootstrap /\ last.err = Ok
    /\ pre.gs.initialized => gs.initialized
    /\ gs.initialized =>
           \A caller \in Users, fee_bps \in InitFeeInputs,
              fee_wallet \in InitFeeWalletInputs :
               LET again == InitializeTx(caller, fee_bps, fee_wallet) IN
               again.err = "AccountAlreadyInUse" /\ again.gs = gs

\* After the admin raised the rate to 100%, someone who is not the admin
\* calls initialize with a rate above 10000: it fails on the existing
\* account and the configuration is as it was.
C18_LateBootstrapRefused ==
    /\ IsBootstrap /\ pre.gs.initialized
    /\ last.caller # pre.gs.admin
    /\ pre.gs.fee_bps = 10000
    /\ last.args.fee_bps > 10000
    /\ last.err = "AccountAlreadyInUse"
    /\ gs = pre.gs

\* C19: the name of every Merchant Record has at most 32 bytes in every
\* reachable state, after any register_merchant and update_merchant calls,
\* and a register_merchant with a longer name fails with NameTooLong and
\* creates no record.
C19_NameBounded ==
    /\ \A a \in MerchantAddrs : Len(merchants[a].name) <= 32
    /\ (last.op = "register_merchant" /\ Len(last.args.name) > 32) =>
           (last.err = "NameTooLong" /\ NoEffects)

IsUpdate == last.op = "update_merchant"
\* The caller owns the record the call addresses by (owner, name).
ByOwner ==
    /\ PaidMerchant.initialized
    /\ last.caller = PaidMerchant.owner
    /\ last.merchant = <<last.caller, last.args.name>>
\* Everything but the addressed Merchant Record is as before the call.
OnlyMerchantWritten ==
    /\ \A a \in MerchantAddrs \ {last.merchant} :
           merchants[a] = pre.merchants[a]
    /\ gs = pre.gs /\ payments = pre.payments
    /\ lamports = pre.lamports /\ tokens = pre.tokens /\ log = pre.log
\* The addressed record holds each supplied value and, for each absent
\* argument, the value it held before.
SuppliedFieldsWritten ==
    LET m == merchants[last.merchant]
        a == last.args
    IN
    /\ m.name = (IF a.new_name = Nothing THEN PaidMerchant.name
                 ELSE a.new_name[1])
    /\ m.settlement_wallet =
           (IF a.settlement_wallet = None THEN PaidMerchant.settlement_wallet
            ELSE a.settlement_wallet)
    /\ m.settlement_token =
           (IF a.settlement_token = None THEN PaidMerchant.settlement_token
            ELSE a.settlement_token)
    /\ m.swap_enabled = (IF a.swap_enabled = Nothing
                         THEN PaidMerchant.swap_enabled
                         ELSE a.swap_enabled[1])
    /\ m.owner = PaidMerchant.owner
    /\ m.initialized
NameFits == last.args.new_name = Nothing \/ Len(last.args.new_name[1]) <= 32

\* C20 as stated: an update_merchant by the record's owner sets exactly the
\* supplied fields and leaves everything else unchanged; one by anyone else
\* fails and changes nothing.
C20_OwnerUpdateAlwaysApplies ==
    IsUpdate =>
        IF ByOwner
        THEN last.err = Ok /\ SuppliedFieldsWritten /\ OnlyMerchantWritten
        ELSE last.err # Ok /\ NoEffects

\* C20, amended: an update_merchant by the record's owner succeeds unless
\* it supplies a new_name longer than 32 bytes; when it succeeds it sets
\* exactly the supplied fields to the supplied values and leaves the absent
\* ones, the owner, every other Merchant Record, Global Configuration, the
\* Payment Records and the balances unchanged; with a longer new_name it
\* fails and changes nothing.  A call by anyone who is not the record's
\* owner fails and changes nothing, whatever it supplies.
C20_PartialUpdate ==
    IsUpdate =>
        IF ByOwner
        THEN IF NameFits
             THEN last.err = Ok /\ SuppliedFieldsWritten /\ OnlyMerchantWritten
             ELSE last.err = "AccountDidNotSerialize" /\ NoEffects
        ELSE /\ last.err # Ok /\ NoEffects
             /\ \A u \in UpdateRequests :
                    LET o == UpdateMerchantTx(last.caller, last.merchant,
                                 last.args.name, u.new_name,
                                 u.settlement_wallet, u.settlement_token,
                                 u.swap_enabled)
                    IN o.err # Ok /\ o.merchants = merchants

\* The owner of a swap-tolerant record changes its settlement wallet only:
\* the wallet is the supplied one, the flag is still raised and the owner's
\* other record is untouched.
C20_WalletOnlyUpdate ==
    /\ IsUpdate /\ ByOwner /\ last.err = Ok
    /\ last.args.settlement_wallet # None
    /\ last.args.new_name = Nothing /\ last.args.swap_enabled = Nothing
    /\ last.args.settlement_token = None
    /\ PaidMerchant.swap_enabled /\ merchants[last.merchant].swap_enabled
    /\ merchants[last.merchant].settlement_wallet # PaidMerchant.settlement_wallet
    /\ \E a \in MerchantAddrs \ {last.merchant} : merchants[a].initialized

\* A process_payment request, and its run on the accounts as they are in s.
Request(payer, payment_id, maddr, name, amount, acc) ==
    [payer |-> payer, pid |-> payment_id, maddr |-> maddr, name |-> name,
     amount |-> amount, acc |-> acc]
Run(s, q) ==
    ProcessPaymentOn(s, q.payer, q.pid, q.maddr, q.name, q.amount, q.acc)
\* The accounts after the transaction with result r has run on s.
After(s, r) ==
    [s EXCEPT !.lamports = r.lamports, !.tokens = r.tokens,
              !.payments = r.payments, !.log = s.log \o r.emitted]
\* What an observer compares: balances, records, set of notifications.
Final(s) ==
    [lamports |-> s.lamports, tokens |-> s.tokens, payments |-> s.payments,
     notified |-> {s.log[i] : i \in DOMAIN s.log}]

\* The request that ran last, and requests under another key that could
\* have run before it instead of after: any payer and identifier, either
\* merchant, a positive amount, on the native path with the destinations
\* the state designates or on the fungible path with the payer's own
\* token account.
LastRequest ==
    Request(last.caller, last.pid, last.merchant, last.args.name,
            last.args.amount, last.args.acc)
RivalAccounts(payer, maddr) ==
    {[merchant_wallet |-> pre.merchants[maddr].settlement_wallet,
      fee_wallet |-> pre.gs.fee_wallet, token_program |-> FALSE,
      mint |-> None, payer_ta |-> None, merchant_ta |-> None,
      fee_ta |-> None],
     [merchant_wallet |-> "w", fee_wallet |-> "w", token_program |-> TRUE,
      mint |-> "M1", payer_ta |-> (IF payer = "u1" THEN "p1" ELSE "m2"),
      merchant_ta |-> "m2", fee_ta |-> "w1"]}
RivalsOf(payer, maddr) ==
    {Request(payer, pid, maddr, maddr[2], amount, acc) :
        pid \in PaymentIds, amount \in 1..MaxAmount,
        acc \in RivalAccounts(payer, maddr)}
Rivals ==
    UNION {RivalsOf(payer, maddr) : payer \in Users, maddr \in MerchantAddrs}
DifferentKey(q) == <<q.payer, q.pid>> # <<last.caller, last.pid>>

\* The two orders of the last request A and a rival B, both from the
\* accounts before A ran.
OrderAB(b) ==
    LET a1 == Run(pre, LastRequest)
        b2 == Run(After(pre, a1), b)
    IN [a |-> a1.err, b |-> b2.err,
        final |-> Final(After(After(pre, a1), b2))]
OrderBA(b) ==
    LET b1 == Run(pre, b)
        a2 == Run(After(pre, b1), LastRequest)
    IN [a |-> a2.err, b |-> b1.err,
        final |-> Final(After(After(pre, b1), a2))]

BalanceErrors == {"InsufficientLamports", "InsufficientBalance",
                  "InsufficientFunds"}

\* The program explored for the two orders: every operation, up to
\* MaxOrderTx committed transactions before the pair.
MaxOrderTx == 4
NextOrder == txCount < MaxOrderTx /\ Next
SpecOrder == Init /\ [][NextOrder]_vars

\* C21 as stated: two process_payment requests with different keys have the
\* same outcomes and lead to the same balances, records and notifications
\* in either order.
C21_OrderNeverMatters ==
    IsPayment =>
        \A b \in Rivals : DifferentKey(b) => OrderAB(b) = OrderBA(b)

\* C21, amended: two process_payment requests with different keys never
\* collide on the payment key, and they interfere only through balances:
\* the outcome of a request differs between the two orders only when in one
\* of them it fails for lack of funds, and when both requests have the same
\* outcomes in both orders the final balances, records and set of
\* notifications are the same.
C21_OrderMattersOnlyThroughBalances ==
    IsPayment =>
        /\ OrderAB(LastRequest).a = last.err
        /\ \A b \in Rivals : DifferentKey(b) =>
               LET ab == OrderAB(b)
                   ba == OrderBA(b)
               IN
               /\ ab.a # ba.a => (ab.a \in BalanceErrors \/ ba.a \in BalanceErrors)
               /\ ab.b # ba.b => (ab.b \in BalanceErrors \/ ba.b \in BalanceErrors)
               /\ (ab.a = ba.a /\ ab.b = ba.b) => ab.final = ba.final
               /\ (~UsedBefore /\ ba.b = Ok) => ba.a # "AccountAlreadyInUse"

\* The payer settled one payment and has a rival under another identifier:
\* with funds for both, both settle in either order with the same result;
\* with funds for one, whichever runs first settles and the other fails.
C21_SamePayerTwoIdentifiers ==
    /\ Settled
    /\ \E b \in Rivals :
           /\ DifferentKey(b) /\ b.payer = last.caller
           /\ OrderAB(b).a = Ok /\ OrderAB(b).b = Ok
           /\ OrderBA(b) = OrderAB(b)
    /\ \E b \in Rivals :
           /\ DifferentKey(b) /\ b.payer = last.caller
           /\ OrderAB(b).a = Ok /\ OrderAB(b).b = "InsufficientBalance"
           /\ OrderBA(b).b = Ok /\ OrderBA(b).a = "InsufficientBalance"

IsMerchantOp == last.op \in {"register_merchant", "update_merchant"}
BalancesKept == lamports = pre.lamports /\ tokens = pre.tokens
\* What process_payment and the admin mutations leave alone, and the one
\* field each admin mutation may write.
PaymentWritesNoConfig == IsPayment => (gs = pre.gs /\ merchants = pre.merchants)
AdminWritesOnlyConfig ==
    last.op \in AdminOps =>
        /\ merchants = pre.merchants /\ payments = pre.payments
        /\ BalancesKept
AdminWritesOwnField ==
    /\ last.op = "set_fee" => gs = [pre.gs EXCEPT !.fee_bps = gs.fee_bps]
    /\ last.op = "set_fee_wallet" =>
           gs = [pre.gs EXCEPT !.fee_wallet = gs.fee_wallet]
    /\ last.op = "set_paused" => gs = [pre.gs EXCEPT !.paused = gs.paused]
    /\ last.op = "update_admin" => gs = [pre.gs EXCEPT !.admin = gs.admin]

\* C22 as stated: process_payment never changes Global Configuration or a
\* Merchant Record; the admin mutations never change a Merchant Record, a
\* Payment Record or a balance and write only their own field; and
\* register_merchant and update_merchant never change Global Configuration,
\* a Payment Record or a balance.
C22_OwnKindOnly ==
    /\ PaymentWritesNoConfig
    /\ AdminWritesOnlyConfig
    /\ AdminWritesOwnField
    /\ IsMerchantOp =>
           (gs = pre.gs /\ payments = pre.payments /\ BalancesKept)

\* C22, amended: as stated, except that a successful register_merchant
\* debits the owner's balance by the rent deposit of the record it creates;
\* it changes no other balance, and besides that it writes only the new
\* Merchant Record.  update_merchant changes no balance.
C22_OwnKindAndRent ==
    /\ PaymentWritesNoConfig
    /\ AdminWritesOnlyConfig
    /\ AdminWritesOwnField
    /\ IsMerchantOp =>
           /\ gs = pre.gs /\ payments = pre.payments /\ tokens = pre.tokens
           /\ \A a \in MerchantAddrs \ {last.merchant} :
                  merchants[a] = pre.merchants[a]
           /\ lamports = (IF last.op = "register_merchant" /\ last.err = Ok
                          THEN RentPaid ELSE pre.lamports)

\* A merchant is registered on a program that is configured and has
\* settled a payment: the configuration and the record are as before, the
\* owner paid the deposit.
C22_RegistrationPaidRent ==
    /\ last.op = "register_merchant" /\ last.err = Ok
    /\ pre.gs.initialized /\ gs = pre.gs
    /\ pre.payments # {} /\ payments = pre.payments
    /\ lamports[last.caller] = pre.lamports[last.caller] - Rent

\* C23: at a rate of at most 10000 the fee calculation never fails with
\* CalculationError, for any amount of the 64-bit width: the product stays
\* within the widened intermediate, the quotient fits the amount's width so
\* that narrowing it loses nothing, and the fee does not exceed the amount
\* so that the checked subtraction does not underflow.
C23_CalculationNeverFails ==
    calc.err # None =>
        LET product == calc.amount * calc.fee_bps IN
        /\ calc.fee_bps <= 10000
        /\ calc.err # "CalculationError"
        /\ product <= U128Max
        /\ product \div BpsDenominator <= U64Max
        /\ calc.fee = product \div BpsDenominator
        /\ calc.fee <= calc.amount
        /\ calc.amount - calc.fee >= 0

\* The largest amount just below the full rate: the product leaves the
\* amount's width, the fee is one unit short of the amount.
C23_WideProductNarrowFee ==
    /\ calc.err = Ok
    /\ calc.amount = U64Max /\ calc.fee_bps = MaxFeeBps - 1
    /\ calc.amount * calc.fee_bps > U64Max
    /\ calc.fee = U64Max - 1 /\ calc.merchant_amount = 1

\* C24: every Merchant Record stored under the key (owner, name) has that
\* owner in its owner field and that name in its name field, after any
\* register_merchant and update_merchant calls, and no operation changes
\* the owner of a record.
C24_RecordMatchesKey ==
    \A a \in MerchantAddrs :
        /\ merchants[a].initialized =>
               (merchants[a].owner = a[1] /\ merchants[a].name = a[2])
        /\ pre.merchants[a].initialized =>
               merchants[a].owner = pre.merchants[a].owner


\* The run of lib.rs's process_payment on the accounts as they are in s, and
\* the account each version creates on success.
LibRun(s, q) ==
    LibProcessPaymentOn(s, q.payer, q.pid, q.maddr, q.name, q.amount, q.acc)
CreatedBy(s, r) == r.payments \ s.payments
FullRun == Run(pre, LastRequest)
MarkerRun == LibRun(pre, LastRequest)
SameOutside(i, l) ==
    /\ i.legs = l.legs
    /\ i.emitted = l.emitted
    /\ i.tokens = l.tokens
    /\ {p.addr : p \in CreatedBy(pre, i)} = {p.addr : p \in CreatedBy(pre, l)}
DepositDiffers(i, l) ==
    l.lamports = [i.lamports EXCEPT ![last.caller] = @ + (Rent - MarkerRent)]
Untouched(r) ==
    /\ r.lamports = pre.lamports /\ r.tokens = pre.tokens
    /\ r.payments = pre.payments /\ r.legs = <<>> /\ r.emitted = <<>>

\* C25 as stated: side by side from the same state on the same request, the
\* two versions of process_payment return the same outcome, make the same
\* two transfers, occupy the same (payer, payment_id) key and emit the same
\* notification, and leave the same balances behind.
C25_VersionsEquivalent ==
    IsPayment =>
        /\ FullRun.err = MarkerRun.err
        /\ SameOutside(FullRun, MarkerRun)
        /\ FullRun.lamports = MarkerRun.lamports

\* C25: side by side from the same state on the same request, whenever the
\* version of instructions/process_payment.rs accepts, the version of lib.rs
\* accepts too, with the same two transfers, the same (payer, payment_id)
\* key, the same notification and the same token balances; the record
\* content differs, and the payer keeps the difference between the two
\* rent deposits.  The outcomes differ only when the full-record version
\* refuses for want of lamports (InsufficientLamports at creation, or
\* InsufficientBalance on the native path when the payer holds less than
\* the amount plus the larger deposit); a refusal by either version leaves
\* everything as it was.
C25_VersionsAgreeUpToDeposit ==
    IsPayment =>
      LET i == FullRun
          l == MarkerRun
      IN
        /\ i.err = last.err
        /\ i.err = Ok => /\ l.err = Ok
                         /\ SameOutside(i, l)
                         /\ DepositDiffers(i, l)
                         /\ CreatedBy(pre, i) # CreatedBy(pre, l)
                         /\ Cardinality(CreatedBy(pre, l)) = 1
        /\ i.err # Ok => Untouched(i)
        /\ l.err # Ok => Untouched(l)
        /\ i.err # l.err =>
              \/ i.err = "InsufficientLamports"
                    /\ pre.lamports[last.caller] < Rent
              \/ /\ i.err = "InsufficientBalance"
                 /\ ~last.args.acc.token_program
                 /\ pre.lamports[last.caller] < last.args.amount + Rent
                 /\ pre.lamports[last.caller] >= last.args.amount + MarkerRent
                 /\ l.err = Ok

\* Witness: a settlement with a fee that both versions accept, with the same
\* transfers, key and notification, and the smaller deposit left to the
\* payer by lib.rs.
C25_BothSettleDepositApart ==
    /\ Settled /\ last.legs[1].amount > 0
    /\ LET i == Run(pre, LastRequest)
           l == LibRun(pre, LastRequest)
       IN /\ l.err = Ok /\ SameOutside(i, l)
          /\ i.lamports = lamports
          /\ l.lamports[last.caller] = lamports[last.caller] + Rent - MarkerRent
          /\ {p.addr : p \in CreatedBy(pre, l)} =
                {PaymentAddr(last.caller, last.pid)}

====
